---- MODULE Spec2Model ----
(***************************************************************************)
(* AiderRepo (aider/repo.py): the wrapper around a git repository and the  *)
(* text generation service that aider uses to stage files and to commit.   *)
(*                                                                         *)
(* Text is a sequence of tokens: a one-character string for the characters *)
(* the code inspects (the double quote, the space, the line break, a       *)
(* letter) and one token for each literal the code only concatenates.     *)
(* A path is the sequence of its components.  Python's None is the value   *)
(* None below.  Every operation records its call, what it returned, the    *)
(* notices it sent to io, the requests it sent to the text generation      *)
(* service and the git commands it ran.                                    *)
(***************************************************************************)
EXTENDS Integers, Sequences, FiniteSets, TLC

VARIABLES
    cwd,        \* os.getcwd(): what Path.resolve() resolves a relative path against
    root,       \* self.root, None before an instance exists
    hasCommits, \* whether HEAD names a commit
    head,       \* tree of the HEAD commit: file -> content version, 0 = absent
    index,      \* git index: file -> content version, 0 = not in the index
    wt,         \* working tree: file -> content version
    call,       \* the last call and its arguments
    ret,        \* what the last call returned
    raised,     \* the exception the last call let through, "" when none
    out,        \* io.tool_output / io.tool_error notices of the last call
    reqs,       \* send_with_retries requests of the last call, with their outcomes
    git,        \* git commands the last call ran
    added       \* every path add_new_files has handed to git add so far

vars == <<cwd, root, hasCommits, head, index, wt, call, ret, raised, out, reqs, git, added>>

repoVars == <<hasCommits, head, index, wt>>

----------------------------------------------------------------------------
\* Bounds of the model.

\* length of the texts the service generates when get_commit_message is
\* called on its own
MaxGen == 3

\* content versions a file goes through
MaxVer == 2
\* length of the list handed to add_new_files and to the constructor
MaxFnames == 2

----------------------------------------------------------------------------
\* Text.

QUOTE == "\""
SPACE == " "
NL == "\n"
LETTER == "a"

None == <<"None">>

\* Python truth value of an optional string
Truthy(x) == x # None /\ x # <<>>

IsSpace(c) == c \in {SPACE, NL}

RECURSIVE LStrip(_)
LStrip(s) == IF s # <<>> /\ IsSpace(Head(s)) THEN LStrip(Tail(s)) ELSE s

RECURSIVE RStrip(_)
RStrip(s) == IF s # <<>> /\ IsSpace(s[Len(s)]) THEN RStrip(SubSeq(s, 1, Len(s) - 1)) ELSE s

\* str.strip()
strip(s) == RStrip(LStrip(s))

\* commit_message[1:-1]
Slice1(s) == SubSeq(s, 2, Len(s) - 1)

\* lines 128-132: what get_commit_message does to the generated text
PostProcess(m) ==
    LET s == strip(m)
    IN  IF s # <<>> /\ s[1] = QUOTE /\ s[Len(s)] = QUOTE THEN strip(Slice1(s)) ELSE s

Placeholder == <<"(no commit message provided)">>

ChatSection == <<NL, NL, "# Aider chat conversation:", NL, NL>>

DiffsHeader == <<"# Diffs:", NL>>

GPT35 == "models.GPT35.name"
GPT35_16k == "models.GPT35_16k.name"

\* line 90
DiffLimit == 4 * 1024 * 4

----------------------------------------------------------------------------
\* Paths.

RECURSIVE Join(_, _)
Join(parts, s) ==
    IF Len(parts) <= 1 THEN parts
    ELSE <<Head(parts), s>> \o Join(Tail(parts), s)

RECURSIVE Split(_, _)
\* the components of a path string: what is left between the separators in seps
Split(str, seps) ==
    IF str = <<>> THEN <<>>
    ELSE IF Head(str) \in seps THEN Split(Tail(str), seps)
    ELSE <<Head(str)>> \o Split(Tail(str), seps)

\* os.sep: the host is a POSIX one
sep == "/"

\* str(Path(PurePosixPath(path))): git's forward slashes to the host's separator
HostPath(path) == Join(Split(path, {"/"}), sep)

\* the components of Path(fn)
PathParts(str) == Split(str, {sep})

\* Path(p).resolve() of an input path p = [abs, parts]: made absolute against
\* the working directory, the "." components dropped
Resolve(p) == Split(IF p.abs THEN p.parts ELSE cwd \o p.parts, {"."})

Rel(parts) == [abs |-> FALSE, parts |-> parts]
Abs(parts) == [abs |-> TRUE, parts |-> parts]

Range(s) == {s[i] : i \in DOMAIN s}

----------------------------------------------------------------------------
\* The git repository the instance manages.

\* the files of the working tree, by their components below the root
Files == {<<"c.txt">>, <<"a", "b.txt">>}

RepoRoot == <<"r1">>
SubDir == <<"r1", "a">>

Versions == 1..MaxVer

NoTree == [f \in Files |-> 0]

\* is_dirty(untracked_files=True)
RepoIsDirtyUntracked ==
    \E f \in Files : index[f] # head[f] \/ index[f] = 0 \/ wt[f] # index[f]

\* repo.is_dirty(): index against HEAD, then working tree against index;
\* untracked files do not count
RepoIsDirty ==
    \E f \in Files : index[f] # head[f] \/ (index[f] # 0 /\ wt[f] # index[f])

RECURSIVE SumLen(_)
\* len(diffs): the hunk that brings a file to content version v is taken to be
\* v * DiffLimit / 2 characters long, so that diffs below, at and above the
\* limit of get_commit_message all occur
SumLen(hunks) ==
    IF hunks = {} THEN 0
    ELSE LET h == CHOOSE x \in hunks : TRUE
         IN  h.new * (DiffLimit \div 2) + SumLen(hunks \ {h})

\* repo.git.diff(*args): the working tree against HEAD when HEAD is among the
\* arguments, against the index otherwise; HEAD does not resolve before the
\* first commit and git fails
GitDiff(args) ==
    LET useHead == "HEAD" \in Range(args)
        base == IF useHead THEN head ELSE index
        hunks == {[file |-> f, old |-> base[f], new |-> wt[f]] :
                    f \in {g \in Files : index[g] # 0 /\ wt[g] # base[g]}}
    IN  IF useHead /\ ~hasCommits
        THEN [ok |-> FALSE, text |-> None]
        ELSE [ok |-> TRUE,
              text |-> [color |-> "--color" \in Range(args), hunks |-> hunks,
                        len |-> SumLen(hunks)]]

\* where git, which runs in the working tree's root, looks for a path
GitPath(p) == IF p.abs THEN p.parts ELSE root \o p.parts

\* repo.git.add(fname): the file enters the index with its current content;
\* git fails on a path that names no file
GitAdd(ix, p) ==
    LET hit == {f \in Files : root \o f = GitPath(p)}
    IN  IF hit = {} THEN [ok |-> FALSE, ix |-> ix]
        ELSE [ok |-> TRUE, ix |-> [f \in Files |-> IF f \in hit THEN wt[f] ELSE ix[f]]]

\* git commit -a: every file of the index is staged with its current content
StageAll == [f \in Files |-> IF index[f] # 0 THEN wt[f] ELSE 0]

\* repo.head.commit.hexsha[:7] of the commit with this tree
ShortSha(tree) == <<"sha", tree>>

----------------------------------------------------------------------------
\* Values the operations record.

Notice(kind, text) == [kind |-> kind, text |-> text]

NoneRet == [kind |-> "None"]

\* what send_with_retries and the read of response.choices[0].message.content
\* come to: the content (a text or None), or one of the two exceptions caught
Ok(content) == [kind |-> "ok", content |-> content]
Rejected == [kind |-> "InvalidRequestError", content |-> None]
Malformed == [kind |-> "AttributeError", content |-> None]
NotAsked == [kind |-> "not asked", content |-> None]

Failed(o) == o.kind \in {"InvalidRequestError", "AttributeError"}

----------------------------------------------------------------------------
\* get_tracked_files (lines 157-174)

BlobPaths == {Join(f, "/") : f \in {g \in Files : head[g] # 0}}

TrackedFiles ==
    IF root = None THEN {}
    ELSE IF ~hasCommits THEN {}
    ELSE {HostPath(path) : path \in BlobPaths}

----------------------------------------------------------------------------
\* add_new_files (lines 48-54)

RECURSIVE AddLoop(_, _, _)
AddLoop(fnames, cur_files, st) ==
    IF fnames = <<>> THEN st
    ELSE LET fname == Head(fnames)
             told == [st EXCEPT !.out = Append(@, Notice("tool_output", <<"Adding ", fname, " to git">>)),
                                !.git = Append(@, [cmd |-> "add", args |-> <<fname>>])]
             g == GitAdd(st.ix, fname)
         IN  IF Resolve(fname) \in cur_files THEN AddLoop(Tail(fnames), cur_files, st)
             ELSE IF g.ok
                  THEN AddLoop(Tail(fnames), cur_files,
                               [told EXCEPT !.ix = g.ix, !.added = @ \cup {GitPath(fname)}])
                  ELSE [told EXCEPT !.raised = "GitCommandError"]

CurFiles == {Resolve(Rel(PathParts(fn))) : fn \in TrackedFiles}

AddNewFiles(fnames) ==
    LET st == AddLoop(fnames, CurFiles,
                      [ix |-> index, out |-> <<>>, git |-> <<>>, added |-> added, raised |-> ""])
    IN  /\ root # None
        /\ call' = [name |-> "add_new_files", fnames |-> fnames, tracked |-> TrackedFiles,
                    staged |-> added]
        /\ index' = st.ix
        /\ out' = st.out
        /\ git' = st.git
        /\ added' = st.added
        /\ raised' = st.raised
        /\ ret' = NoneRet
        /\ reqs' = <<>>
        /\ UNCHANGED <<cwd, root, hasCommits, head, wt>>

----------------------------------------------------------------------------
\* get_commit_message (lines 89-132)

\* line 114: the model named in the request for the loop's model
RequestModel(model) == GPT35

RECURSIVE TryModels(_, _, _)
\* lines 110-122: the requests sent, each with its outcome
TryModels(models, messages, outcomes) ==
    IF models = <<>> THEN <<>>
    ELSE LET r == [model |-> RequestModel(Head(models)), messages |-> messages,
                   functions |-> None, stream |-> FALSE, outcome |-> Head(outcomes)]
         IN  IF Failed(Head(outcomes))
             THEN <<r>> \o TryModels(Tail(models), messages, Tail(outcomes))
             ELSE <<r>>

\* line 90
TooLarge(diffs) == diffs.len >= DiffLimit

GetCommitMessage(diffs, context, outcomes) ==
    LET content == [text |-> (IF Truthy(context) THEN context \o <<NL>> ELSE <<>>) \o DiffsHeader,
                    diffs |-> diffs]
        messages == <<[role |-> "system", content |-> "prompts.commit_system"],
                      [role |-> "user", content |-> content]>>
        sent == TryModels(<<GPT35, GPT35_16k>>, messages, outcomes)
        last == sent[Len(sent)].outcome
        commit_message == IF Failed(last) THEN None ELSE last.content
    IN  IF TooLarge(diffs)
        THEN [ret |-> None, reqs |-> <<>>,
              out |-> <<Notice("tool_error",
                               <<"Diff is too large for ", GPT35, " to generate a commit message.">>)>>]
        ELSE IF ~Truthy(commit_message)
        THEN [ret |-> None, reqs |-> sent,
              out |-> <<Notice("tool_error", <<"Failed to generate commit message!">>)>>]
        ELSE [ret |-> PostProcess(commit_message), reqs |-> sent, out |-> <<>>]

----------------------------------------------------------------------------
\* get_diffs (lines 134-141)

DiffArgs(pretty, args) ==
    LET a == IF pretty THEN <<"--color">> \o args ELSE args
    IN  IF a = <<>> THEN <<"HEAD">> ELSE a

GetDiffs(pretty, args) ==
    LET d == GitDiff(DiffArgs(pretty, args))
    IN  /\ root # None
        /\ call' = [name |-> "get_diffs", pretty |-> pretty, args |-> args]
        /\ git' = <<[cmd |-> "diff", args |-> DiffArgs(pretty, args)]>>
        /\ ret' = IF d.ok THEN [kind |-> "diff", text |-> d.text] ELSE NoneRet
        /\ raised' = IF d.ok THEN "" ELSE "GitCommandError"
        /\ out' = <<>>
        /\ reqs' = <<>>
        /\ UNCHANGED <<cwd, root, hasCommits, head, index, wt, added>>

----------------------------------------------------------------------------
\* show_diffs (lines 143-155)

ShowDiffs(pretty) ==
    LET current_branch_has_commits == hasCommits
        d == GitDiff(DiffArgs(pretty, <<>>))
    IN  /\ root # None
        /\ call' = [name |-> "show_diffs", pretty |-> pretty]
        /\ IF ~current_branch_has_commits
           THEN /\ ret' = [kind |-> "str", text |-> <<>>]
                /\ git' = <<>>
                /\ out' = <<>>
           ELSE /\ ret' = NoneRet
                /\ git' = <<[cmd |-> "diff", args |-> DiffArgs(pretty, <<>>)]>>
                /\ out' = <<Notice("print", d.text)>>
        /\ raised' = ""
        /\ reqs' = <<>>
        /\ UNCHANGED <<cwd, root, hasCommits, head, index, wt, added>>

----------------------------------------------------------------------------
\* commit (lines 56-81)

\* the context appended to the one message that is committed and returned
ComposeMessageShared(context, prefix, commit_message) ==
    LET m == IF ~Truthy(commit_message) THEN Placeholder ELSE commit_message
        prefixed == IF Truthy(prefix) THEN prefix \o m ELSE m
        full == IF Truthy(context) THEN prefixed \o ChatSection \o context ELSE prefixed
    IN  [commit_message |-> full, full_commit_message |-> full]

\* lines 67-75: the message of the notice and of the return value, and the
\* text handed to git
ComposeMessage(context, prefix, commit_message) ==
    LET m == IF ~Truthy(commit_message) THEN Placeholder ELSE commit_message
        prefixed == IF Truthy(prefix) THEN prefix \o m ELSE m
    IN  [commit_message |-> prefixed,
         full_commit_message |-> IF Truthy(context) THEN prefixed \o ChatSection \o context
                                 ELSE prefixed]

\* the test of line 60 turned round
UsesMessageInverted(message) == ~Truthy(message)

\* line 60
UsesMessage(message) == Truthy(message)

Commit(context, prefix, message, outcomes) ==
    LET dirty == RepoIsDirty
        diffcmd == [cmd |-> "diff", args |-> DiffArgs(FALSE, <<>>)]
        d == GitDiff(DiffArgs(FALSE, <<>>))
        gen == IF UsesMessage(message) THEN [ret |-> message, reqs |-> <<>>, out |-> <<>>]
               ELSE GetCommitMessage(d.text, context, outcomes)
        before == IF UsesMessage(message) THEN <<>> ELSE <<diffcmd>>
        msg == ComposeMessage(context, prefix, gen.ret)
        commitcmd == [cmd |-> "commit",
                      args |-> <<"-a", "-m", msg.full_commit_message, "--no-verify">>]
        tree == StageAll
        commit_hash == ShortSha(tree)
    IN  /\ root # None
        /\ call' = [name |-> "commit", context |-> context, prefix |-> prefix,
                    message |-> message, dirty |-> dirty]
        /\ IF ~dirty
           THEN /\ ret' = NoneRet /\ raised' = "" /\ out' = <<>> /\ reqs' = <<>> /\ git' = <<>>
                /\ UNCHANGED repoVars
           ELSE IF ~UsesMessage(message) /\ ~d.ok
           THEN \* git diff HEAD fails before the first commit
                /\ ret' = NoneRet /\ raised' = "GitCommandError" /\ out' = <<>> /\ reqs' = <<>>
                /\ git' = <<diffcmd>>
                /\ UNCHANGED repoVars
           ELSE IF tree = head
           THEN \* git commit -a finds nothing to commit and fails
                /\ ret' = NoneRet /\ raised' = "GitCommandError" /\ out' = gen.out
                /\ reqs' = gen.reqs
                /\ git' = before \o <<commitcmd>>
                /\ UNCHANGED repoVars
           ELSE /\ ret' = [kind |-> "tuple", hash |-> commit_hash, message |-> msg.commit_message]
                /\ raised' = ""
                /\ out' = gen.out \o <<Notice("tool_output",
                                               <<"Commit ", commit_hash, " ", msg.commit_message>>)>>
                /\ reqs' = gen.reqs
                /\ git' = before \o <<commitcmd>>
                /\ hasCommits' = TRUE
                /\ head' = tree
                /\ index' = tree
                /\ wt' = wt
        /\ UNCHANGED <<cwd, root, added>>

----------------------------------------------------------------------------
\* is_dirty (lines 176-177) and get_tracked_files as calls

IsDirty ==
    /\ root # None
    /\ call' = [name |-> "is_dirty"]
    /\ ret' = [kind |-> "bool", value |-> RepoIsDirty]
    /\ raised' = "" /\ out' = <<>> /\ reqs' = <<>> /\ git' = <<>>
    /\ UNCHANGED <<cwd, root, hasCommits, head, index, wt, added>>

GetTrackedFiles ==
    /\ call' = [name |-> "get_tracked_files"]
    /\ ret' = [kind |-> "set", items |-> TrackedFiles]
    /\ raised' = "" /\ out' = <<>> /\ reqs' = <<>> /\ git' = <<>>
    /\ UNCHANGED <<cwd, root, hasCommits, head, index, wt, added>>

\* get_commit_message called on its own
GetCommitMessageCall(diffs, context, outcomes) ==
    LET gen == GetCommitMessage(diffs, context, outcomes)
    IN  /\ root # None
        /\ call' = [name |-> "get_commit_message", diffs |-> diffs, context |-> context]
        /\ ret' = IF gen.ret = None THEN NoneRet ELSE [kind |-> "str", text |-> gen.ret]
        /\ raised' = "" /\ out' = gen.out /\ reqs' = gen.reqs /\ git' = <<>>
        /\ UNCHANGED <<cwd, root, hasCommits, head, index, wt, added>>

----------------------------------------------------------------------------
\* The working tree changes between calls: a file gets new content.

Edit(f, v) ==
    /\ root # None
    /\ v # wt[f]
    /\ wt' = [wt EXCEPT ![f] = v]
    /\ call' = [name |-> "edit", file |-> f]
    /\ ret' = NoneRet
    /\ raised' = "" /\ out' = <<>> /\ reqs' = <<>> /\ git' = <<>>
    /\ UNCHANGED <<cwd, root, hasCommits, head, index, added>>

----------------------------------------------------------------------------
\* __init__ (lines 16-46)

\* the directories of the host: two repositories, one with a subdirectory, and
\* a directory outside every repository
OtherRoot == <<"r2">>
Outside == <<"n">>
RepoRoots == {RepoRoot, OtherRoot}
Dirs == {RepoRoot, SubDir, OtherRoot, Outside}

IsPrefix(a, b) == Len(a) <= Len(b) /\ SubSeq(b, 1, Len(a)) = a

\* git.Repo(fname, search_parent_directories=True).working_dir, None for
\* InvalidGitRepositoryError
EnclosingRepo(path) ==
    LET found == {r \in RepoRoots : IsPrefix(r, path)}
    IN  IF found = {} THEN None ELSE CHOOSE r \in found : TRUE

\* utils.safe_abs_path of a resolved path
SafeAbsPath(path) == path

RECURSIVE RepoPaths(_)
\* lines 24-34
RepoPaths(check_fnames) ==
    IF check_fnames = <<>> THEN <<>>
    ELSE LET repo_path == EnclosingRepo(Resolve(Head(check_fnames)))
         IN  IF repo_path = None THEN RepoPaths(Tail(check_fnames))
             ELSE <<SafeAbsPath(repo_path)>> \o RepoPaths(Tail(check_fnames))

\* lines 19-22
CheckFnames(fnames) == IF fnames # <<>> THEN fnames ELSE <<Rel(<<".">>)>>

NumReposCounted(repo_paths) == Len(repo_paths)

\* line 36
NumRepos(repo_paths) == Cardinality(Range(repo_paths))

Construct(fnames) ==
    LET repo_paths == RepoPaths(CheckFnames(fnames))
        num_repos == NumRepos(repo_paths)
    IN  /\ call' = [name |-> "__init__", fnames |-> fnames]
        /\ IF num_repos = 0
           THEN /\ raised' = "FileNotFoundError" /\ out' = <<>> /\ root' = None
           ELSE IF num_repos > 1
           THEN /\ raised' = "FileNotFoundError"
                /\ out' = <<Notice("tool_error", <<"Files are in different git repos.">>)>>
                /\ root' = None
           ELSE /\ raised' = "" /\ out' = <<>>
                /\ root' = SafeAbsPath(repo_paths[Len(repo_paths)])
        /\ ret' = NoneRet /\ reqs' = <<>> /\ git' = <<>>
        /\ UNCHANGED <<cwd, hasCommits, head, index, wt, added>>

----------------------------------------------------------------------------
\* Inputs.

Seqs(S, n) == UNION {[1..k -> S] : k \in 0..n}

Candidates == {Rel(<<".">>), Rel(<<"c.txt">>), Abs(RepoRoot), Abs(SubDir \o <<"b.txt">>),
               Abs(OtherRoot), Abs(OtherRoot \o <<"c.txt">>), Abs(Outside)}

InputPaths == {Rel(<<"c.txt">>), Rel(<<"b.txt">>), Abs(RepoRoot \o <<"a", "b.txt">>)}

Contexts == {None, <<>>, <<"chat">>}
Prefixes == {None, <<>>, <<"aider: ">>}
Messages == {None, <<>>, <<LETTER>>, <<LETTER, NL, LETTER>>}

\* texts the service generates, and None for a response without content
Generated == {None, <<>>, <<LETTER>>, <<QUOTE, QUOTE>>, <<SPACE, LETTER, NL>>}

Outcomes(contents) == {Rejected, Malformed} \cup {Ok(c) : c \in contents}

\* the outcomes of the two attempts; the second is asked only after a failed first
OutcomePairs(contents) ==
    {<<o1, o2>> : o1 \in {Rejected, Malformed}, o2 \in Outcomes(contents)}
        \cup {<<o1, NotAsked>> : o1 \in {Ok(c) : c \in contents}}

DiffArgLists == {<<>>, <<"HEAD">>}

\* one call of commit, its arguments and the service's answers drawn from the sets
CommitStep(contexts, prefixes, messages, contents) ==
    \E context \in contexts, prefix \in prefixes, message \in messages :
        \E outcomes \in (IF UsesMessage(message) \/ ~RepoIsDirty
                          THEN {<<NotAsked, NotAsked>>} ELSE OutcomePairs(contents)) :
            Commit(context, prefix, message, outcomes)

AddStep(n) == \E fnames \in Seqs(InputPaths, n) : AddNewFiles(fnames)

EditStep == \E f \in Files, v \in Versions : Edit(f, v)

\* a repository before its first commit, or one whose first commit holds c.txt
InitRepo ==
    /\ hasCommits \in BOOLEAN
    /\ head = IF hasCommits THEN [f \in Files |-> IF f = <<"c.txt">> THEN 1 ELSE 0] ELSE NoTree
    /\ index = head
    /\ wt = [f \in Files |-> 1]

InitCall ==
    /\ call = [name |-> "none"]
    /\ ret = NoneRet
    /\ raised = ""
    /\ out = <<>>
    /\ reqs = <<>>
    /\ git = <<>>
    /\ added = {}

----------------------------------------------------------------------------
\* The instance at work on its repository, from the repository's root or from
\* a subdirectory.

Init ==
    /\ cwd \in {RepoRoot, SubDir}
    /\ root = RepoRoot
    /\ InitRepo
    /\ InitCall

Next ==
    \/ AddStep(MaxFnames)
    \/ CommitStep({None, <<"chat">>}, {None, <<"aider: ">>}, {None, <<LETTER>>},
                  {None, <<LETTER>>})
    \/ \E pretty \in BOOLEAN, args \in DiffArgLists : GetDiffs(pretty, args)
    \/ \E pretty \in BOOLEAN : ShowDiffs(pretty)
    \/ IsDirty
    \/ GetTrackedFiles
    \/ EditStep

Spec == Init /\ [][Next]_vars

----------------------------------------------------------------------------
\* Commits with every kind of argument, from the repository's root.

InitCommit ==
    /\ cwd = RepoRoot
    /\ root = RepoRoot
    /\ InitRepo
    /\ InitCall

NextCommit ==
    \/ CommitStep(Contexts, Prefixes, Messages, Generated)
    \/ AddStep(1)
    \/ EditStep

SpecCommit == InitCommit /\ [][NextCommit]_vars

----------------------------------------------------------------------------
\* Claims about commit, add_new_files and get_diffs.

LastCommand == git[Len(git)]

\* the text a prefix contributes
PrefixText(prefix) == IF prefix = None THEN <<>> ELSE prefix

\* the text the service generated in the last successful attempt, None without one
GeneratedText ==
    IF reqs = <<>> \/ Failed(reqs[Len(reqs)].outcome) THEN None
    ELSE reqs[Len(reqs)].outcome.content

NoUsableMessage == ~Truthy(GeneratedText) \/ PostProcess(GeneratedText) = <<>>

CleanTree == \A f \in Files : index[f] = head[f] /\ (index[f] # 0 => wt[f] = index[f])

\* C2: in a state where the working tree is clean, commit with any arguments
\* returns None, runs no git command, sends no request and no notice and leaves
\* the repository as it is; and the state a successful commit leaves is clean,
\* so that a commit right after it is such a call
C2_CleanCommitIsNoOp ==
    /\ [][(CleanTree /\ call'.name = "commit") =>
            /\ ret' = NoneRet /\ raised' = ""
            /\ git' = <<>> /\ reqs' = <<>> /\ out' = <<>>
            /\ UNCHANGED repoVars]_vars
    /\ []((call.name = "commit" /\ ret.kind = "tuple") => CleanTree)

\* a commit call on the clean tree a commit has left, with every argument given
C2_Witness ==
    /\ call.name = "commit"
    /\ ~call.dirty
    /\ CleanTree
    /\ head[<<"c.txt">>] = 2
    /\ Truthy(call.context) /\ Truthy(call.prefix) /\ Truthy(call.message)
    /\ ret = NoneRet

\* C3 as stated: on a dirty tree and without a message, commit creates exactly
\* one commit whatever message generation comes to, and the message is the
\* placeholder, after the prefix, whenever generation gives no usable message
C3_Original ==
    (call.name = "commit" /\ call.dirty /\ ~Truthy(call.message)) =>
        /\ raised = ""
        /\ Cardinality({i \in DOMAIN git : git[i].cmd = "commit"}) = 1
        /\ ret.kind = "tuple"
        /\ NoUsableMessage => ret.message = PrefixText(call.prefix) \o Placeholder

\* C4 as stated: for every message value passed to commit on a dirty tree
\* neither get_diffs nor get_commit_message runs, and the commit uses the
\* message (looked at in the calls that return)
C4_Original ==
    (call.name = "commit" /\ call.dirty /\ call.message # None /\ raised = "") =>
        /\ reqs = <<>>
        /\ \A i \in DOMAIN git : git[i].cmd # "diff"
        /\ Len(git) = 1
        /\ LastCommand.cmd = "commit"
        /\ SubSeq(LastCommand.args[3], 1, Len(PrefixText(call.prefix) \o call.message))
              = PrefixText(call.prefix) \o call.message

\* C4 as amended: for every non-empty message passed to commit on a dirty tree
\* neither get_diffs nor get_commit_message runs (no git diff, no request, no
\* error notice), and the one git command is the commit, whose text starts with
\* the prefix, if any, and the message
C4_ExplicitMessage ==
    (call.name = "commit" /\ call.dirty /\ Truthy(call.message)) =>
        /\ reqs = <<>>
        /\ \A i \in DOMAIN git : git[i].cmd # "diff"
        /\ \A i \in DOMAIN out : out[i].kind # "tool_error"
        /\ Len(git) = 1
        /\ LastCommand.cmd = "commit"
        /\ SubSeq(LastCommand.args[3], 1, Len(PrefixText(call.prefix) \o call.message))
              = PrefixText(call.prefix) \o call.message

\* a commit made with a message and a prefix
C4_Witness ==
    /\ call.name = "commit" /\ call.dirty
    /\ Truthy(call.message) /\ Truthy(call.prefix)
    /\ ret.kind = "tuple"
    /\ ret.message = call.prefix \o call.message

\* C8 as stated, for calls from the repository's root: add_new_files adds and
\* announces exactly the input paths that are not tracked, and adds no path
\* that an earlier add_new_files has staged
C8_Tracked(p) == hasCommits /\ \E f \in Files : head[f] # 0 /\ Resolve(p) = root \o f

C8_Untracked(p) == ~C8_Tracked(p)

C8_Original ==
    (call.name = "add_new_files" /\ cwd = root /\ raised = "") =>
        /\ [i \in DOMAIN git |-> git[i].args[1]] = SelectSeq(call.fnames, C8_Untracked)
        /\ [i \in DOMAIN out |-> out[i].text[2]] = SelectSeq(call.fnames, C8_Untracked)
        /\ \A i \in DOMAIN git : GitPath(git[i].args[1]) \notin call.staged

\* C9 as stated: without arguments get_diffs returns the diff of the working
\* tree against HEAD for both values of pretty, which only adds the coloring
C9_AgainstHead ==
    {[file |-> f, old |-> head[f], new |-> wt[f]] :
        f \in {g \in Files : index[g] # 0 /\ wt[g] # head[g]}}

C9_Original ==
    (call.name = "get_diffs" /\ call.args = <<>> /\ hasCommits) =>
        /\ raised = ""
        /\ ret.kind = "diff"
        /\ ret.text.color = call.pretty
        /\ ret.text.hunks = C9_AgainstHead

RECURSIVE FirstLine(_)
FirstLine(t) == IF t = <<>> \/ Head(t) = NL THEN <<>> ELSE <<Head(t)>> \o FirstLine(Tail(t))

\* the message before the prefix: the one passed, else the generated one after
\* its post-processing, else the placeholder
C10_Message ==
    IF Truthy(call.message) THEN call.message
    ELSE IF NoUsableMessage THEN Placeholder
    ELSE PostProcess(GeneratedText)

\* C10 as stated: the committed text is prefix + message, then the section and
\* the context when a context is supplied; the returned and announced message
\* is prefix + message, and is the subject line of the committed text
C10_Original ==
    (call.name = "commit" /\ ret.kind = "tuple") =>
        /\ ret.message = PrefixText(call.prefix) \o C10_Message
        /\ LastCommand.args[3] =
              ret.message \o (IF call.context # None THEN ChatSection \o call.context ELSE <<>>)
        /\ out[Len(out)].text[4] = ret.message
        /\ FirstLine(LastCommand.args[3]) = ret.message

\* C10 as amended: the committed text is prefix + message, then the section and
\* the context when a non-empty context is supplied; the returned and announced
\* message is prefix + message without the context; the first line of the
\* committed text is the first line of the returned message, and is the whole
\* returned message when that has no line break
C10_Composition ==
    (call.name = "commit" /\ ret.kind = "tuple") =>
        /\ ret.message = PrefixText(call.prefix) \o C10_Message
        /\ LastCommand.cmd = "commit"
        /\ LastCommand.args[3] =
              ret.message \o (IF Truthy(call.context) THEN ChatSection \o call.context ELSE <<>>)
        /\ out[Len(out)].kind = "tool_output"
        /\ out[Len(out)].text[4] = ret.message
        /\ FirstLine(LastCommand.args[3]) = FirstLine(ret.message)
        /\ NL \notin Range(ret.message) => FirstLine(LastCommand.args[3]) = ret.message

\* a commit with a prefix, a context and a generated message
C10_Witness ==
    /\ call.name = "commit"
    /\ ret.kind = "tuple"
    /\ Truthy(call.context) /\ Truthy(call.prefix) /\ call.message = None
    /\ ~NoUsableMessage
    /\ Len(LastCommand.args[3]) > Len(ret.message)

----------------------------------------------------------------------------
\* Construction, from every directory and for every list of candidates.

InitResolve ==
    /\ cwd \in Dirs
    /\ root = None
    /\ hasCommits = FALSE /\ head = NoTree /\ index = NoTree /\ wt = [f \in Files |-> 1]
    /\ InitCall

NextResolve == \E fnames \in Seqs(Candidates, MaxFnames) : Construct(fnames)

SpecResolve == InitResolve /\ [][NextResolve]_vars

\* C1 as stated: construction succeeds iff all the candidates that resolve to a
\* repository resolve to the same root, and the managed root is then that root
C1_Candidates == IF call.fnames = <<>> THEN <<Rel(<<".">>)>> ELSE call.fnames

C1_Roots ==
    {r \in RepoRoots : \E i \in DOMAIN C1_Candidates : IsPrefix(r, Resolve(C1_Candidates[i]))}

C1_Succeeded == raised = "" /\ root # None

C1_Original ==
    call.name = "__init__" =>
        /\ C1_Succeeded <=> (\A r1, r2 \in C1_Roots : r1 = r2)
        /\ C1_Succeeded => root \in C1_Roots

\* C1 as amended: construction succeeds iff at least one candidate resolves to
\* a repository and all that do resolve to the same root; the managed root is
\* then that root and the candidates outside every repository are ignored;
\* a failed construction raises FileNotFoundError and leaves no root
C1_Resolution ==
    call.name = "__init__" =>
        /\ C1_Succeeded <=> Cardinality(C1_Roots) = 1
        /\ C1_Succeeded => C1_Roots = {root}
        /\ ~C1_Succeeded => raised = "FileNotFoundError" /\ root = None

\* a construction that succeeds on a candidate of one repository and one
\* outside every repository
C1_Witness ==
    /\ call.name = "__init__"
    /\ C1_Succeeded
    /\ root = RepoRoot
    /\ \E i \in DOMAIN call.fnames : EnclosingRepo(Resolve(call.fnames[i])) = None
    /\ \E i \in DOMAIN call.fnames : EnclosingRepo(Resolve(call.fnames[i])) = RepoRoot

----------------------------------------------------------------------------
\* get_commit_message on its own, for diffs around the limit and every short
\* generated text.

GenTexts ==
    Seqs({LETTER, QUOTE, SPACE}, MaxGen)
        \cup {None, <<QUOTE, LETTER, QUOTE, SPACE, QUOTE, LETTER, QUOTE>>}

DiffTexts ==
    {[color |-> FALSE, hunks |-> {}, len |-> n] : n \in {0, DiffLimit - 1, DiffLimit, DiffLimit + 1}}

InitGen ==
    /\ cwd = RepoRoot
    /\ root = RepoRoot
    /\ hasCommits = TRUE
    /\ head = [f \in Files |-> 1] /\ index = head /\ wt = head
    /\ InitCall

NextGen ==
    \E diffs \in DiffTexts, context \in {None, <<"chat">>}, outcomes \in OutcomePairs(GenTexts) :
        GetCommitMessageCall(diffs, context, outcomes)

SpecGen == InitGen /\ [][NextGen]_vars

\* C5 as stated: a diff of exactly 4 * 4096 characters is accepted and a request
\* is submitted; a longer one is rejected with the "too large" notice, no
\* request and no message
C5_Threshold == 4 * 4096

C5_TooLargeNotice ==
    /\ Len(out) = 1
    /\ out[1].kind = "tool_error"
    /\ out[1].text[1] = "Diff is too large for "

C5_Original ==
    call.name = "get_commit_message" =>
        /\ call.diffs.len = C5_Threshold => Len(reqs) >= 1
        /\ call.diffs.len > C5_Threshold => reqs = <<>> /\ ret = NoneRet /\ C5_TooLargeNotice

\* C6 as stated: a generated text that, trimmed, is wrapped in one pair of
\* double quotes loses exactly that pair; every other text, a lone quote and
\* two quoted words among them, comes back trimmed and otherwise untouched
C6_NoQuote(t) == \A i \in DOMAIN t : t[i] # QUOTE

RECURSIVE C6_Wrapped(_)
C6_Wrapped(t) ==
    /\ Len(t) >= 2
    /\ t[1] = QUOTE
    /\ t[Len(t)] = QUOTE
    /\ C6_NoQuote(Slice1(t)) \/ C6_Wrapped(Slice1(t))

C6_Generated == reqs[Len(reqs)].outcome.content

C6_Original ==
    (/\ call.name = "get_commit_message"
     /\ reqs # <<>>
     /\ ~Failed(reqs[Len(reqs)].outcome)
     /\ Truthy(C6_Generated))
        => LET t == strip(C6_Generated)
           IN  /\ ret.kind = "str"
               /\ ret.text = IF C6_Wrapped(t) THEN strip(Slice1(t)) ELSE t

\* C7 as stated: the first request names the primary model; a second request
\* is sent iff the first attempt failed, and it names the larger-context
\* model; at most two requests are sent
C7_Original ==
    (call.name = "get_commit_message" /\ call.diffs.len < DiffLimit) =>
        /\ Len(reqs) \in {1, 2}
        /\ reqs[1].model = GPT35
        /\ Len(reqs) = 2 <=> Failed(reqs[1].outcome)
        /\ Len(reqs) = 2 => reqs[2].model = GPT35_16k

====
